---- MODULE Spec2Model ----
(***************************************************************************)
(* State-machine model of TaskGenerator (src/src/task_generator.py): the   *)
(* task-sampling scheduler that serves catalog entries or, in factory      *)
(* mode, decides between generating a new task and revisiting an old one.  *)
(*                                                                         *)
(* Python values are rendered as follows.  Optional[x] is a sequence of    *)
(* length 0 (None) or 1 (the value).  A list is a sequence; Python's       *)
(* 0-based index i is position i + 1.  revisit_ratio and the draw of       *)
(* random.random() are numerators over RatioScale, so the draw ranges over *)
(* 0 .. RatioScale - 1 (the interval [0,1)) and the ratio over             *)
(* 0 .. RatioScale (the interval [0,1]).  A raised exception is the `err`  *)
(* field of the call's outcome: the exception class, and for ValueError    *)
(* the raise site.                                                         *)
(*                                                                         *)
(* Lines 83 and 94 of the source lack the colon that closes their `if`;    *)
(* they are read as the `if` statements their indented bodies show them to *)
(* be.  The assert of __init__ is taken to be enabled (no python -O).      *)
(***************************************************************************)
EXTENDS Integers, Sequences, FiniteSets, TLC

VARIABLES
    phase,        \* "new" before __init__, "ready" after it, "ctor_failed" if it raised
    self,         \* the instance's attributes
    last,         \* the most recent call: its arguments and its outcome
    ncalls,       \* calls made so far (bounds the run)
    revisit_run,  \* the consecutive revisits made since History last changed length
    before_reset, \* the get_task call a reset followed, kept until the call after the reset
    in_order,     \* the steps passed to get_task since the last reset never decreased
    tally         \* calls since the last reset: revisit selections, successes, generations

vars == <<phase, self, last, ncalls, revisit_run, before_reset, in_order, tally>>

-----------------------------------------------------------------------------
(* Bounds of the model. *)

MaxCalls == 3        \* calls per run under Spec
MaxStep == 1         \* meta_step ranges over 0 .. MaxStep
RatioScale == 2      \* resolution of revisit_ratio and of random.random()
MaxLoopCalls == 7    \* iterations of the training loop under SpecLoop
MaxCatalogCalls == 4 \* calls per run under SpecCatalog
MaxCatalogStep == 3  \* meta_step ranges over 0 .. MaxCatalogStep under SpecCatalog
MaxRegenCalls == 4   \* calls per run under SpecRegen
MaxCyclicCalls == 7  \* calls per run under SpecCyclic

-----------------------------------------------------------------------------
(* Python values. *)

NoneV == <<>>
Some(x) == <<x>>
Val(o) == o[1]

NoErr == ""

Steps == 0 .. MaxStep
RevisitStarts == 0 .. MaxStep
\* revisit_start of the generators driven by the training loop
LoopRevisitStarts == 0 .. (MaxStep + 1)
Ratios == 0 .. RatioScale
Methods == {"cyclic", "random", "weighted", "softmax"}

EntryA == <<"envA", "infoA">>
EntryB == <<"envB", "infoB">>
EntryC == <<"envC", "infoC">>
\* tasks: absent, the empty list, or a two-entry list
TaskLists == {NoneV, Some(<<>>), Some(<<EntryA, EntryB>>)}
\* task_callable: absent or a factory
Callables == {NoneV, Some("make_env")}
\* task_callable_params: absent or a dict (a sequence of key/value pairs)
ParamDicts == {NoneV, Some(<< <<"size", 5>> >>)}
\* sampling_weights: absent, valid, all zero, or of the wrong length
WeightLists == {NoneV, Some(<<0, 1>>), Some(<<0, 0>>), Some(<<1>>)}
\* seed argument of get_task: absent or explicit
SeedArgs == {NoneV, Some(1)}
\* values random.getrandbits(64) may return
RandBits == {7}

-----------------------------------------------------------------------------
(* The collaborators: the factory and the random module. *)

\* task_callable(random_seed=seed, **params): a factory that is a function of
\* its arguments, returning the pair (env, info)
task_callable(seed, params) ==
    << <<"env", seed, params>>, <<"info", seed, params>> >>

RECURSIVE SeqSum(_)
SeqSum(w) == IF w = <<>> THEN 0 ELSE Head(w) + SeqSum(Tail(w))

\* the indices random.choices(population, weights=w, k=1) can return
WeightedSupport(w) == {i \in 0 .. (Len(w) - 1) : w[i + 1] > 0}

CatalogMode(s) == s.tasks # NoneV
FactoryMode(s) == s.tasks = NoneV /\ s.task_callable # NoneV

\* the index a catalog draw can return: random.choice / random.choices
CatalogChoices(s) ==
    IF ~CatalogMode(s) \/ Val(s.tasks) = <<>> THEN {0}
    ELSE IF s.sampling_method = "random" THEN 0 .. (Len(Val(s.tasks)) - 1)
    ELSE IF /\ s.sampling_method = "weighted"
            /\ s.sampling_weights # NoneV
            /\ WeightedSupport(Val(s.sampling_weights)) # {}
         THEN WeightedSupport(Val(s.sampling_weights))
    ELSE {0}

\* the index random.randint(0, len(selected_tasks) - 1) can return
RandintChoices(s) ==
    IF FactoryMode(s) /\ s.sampling_method = "random" /\ s.selected_tasks # <<>>
    THEN 0 .. (Len(s.selected_tasks) - 1)
    ELSE {0}

\* what the random module and the factory can do during one get_task call:
\*   u      the draw of random.random(), over RatioScale
\*   k      the result of random.randint
\*   choice the index drawn by random.choice / random.choices
\*   bits   the result of random.getrandbits(64)
\*   f      whether the factory returns or raises
RandomDraws(s) ==
    [u : IF FactoryMode(s) THEN 0 .. (RatioScale - 1) ELSE {0},
     k : RandintChoices(s),
     choice : CatalogChoices(s),
     bits : RandBits,
     f : IF FactoryMode(s) THEN {"ok", "raise"} ELSE {"ok"}]

-----------------------------------------------------------------------------
(* TaskGenerator.__init__ *)

\* the assert that opens __init__
init_assert(tasks, callable) == tasks # NoneV \/ callable # NoneV

init(tasks, callable, params, ratio, start, method, weights) ==
    [tasks |-> tasks,
     task_callable |-> callable,
     task_callable_params |-> IF params = NoneV THEN <<>> ELSE Val(params),
     revisit_ratio |-> ratio,
     revisit_start |-> start,
     sampling_method |-> method,
     sampling_weights |-> weights,
     revisit_counter |-> 0,
     selected_tasks |-> <<>>]

\* the attributes before __init__ has run
Unbuilt == init(NoneV, NoneV, NoneV, 0, 0, "random", NoneV)

-----------------------------------------------------------------------------
(* TaskGenerator.reset_history *)

\* mutant: the counter left as it is
reset_history_keep_counter(s) ==
    [s EXCEPT !.selected_tasks = <<>>]

reset_history(s) ==
    [s EXCEPT !.selected_tasks = <<>>, !.revisit_counter = 0]

-----------------------------------------------------------------------------
(* TaskGenerator._select_task_index_for_revisit *)

\* mutant: cyclic selection that leaves revisit_counter as it is
select_task_index_no_increment(s, k) ==
    IF s.sampling_method = "cyclic" THEN
        [idx |-> Some(s.revisit_counter % Len(s.selected_tasks)),
         revisit_counter |-> s.revisit_counter,
         err |-> NoErr]
    ELSE IF s.sampling_method = "random" THEN
        [idx |-> Some(k),
         revisit_counter |-> s.revisit_counter + 1,
         err |-> NoErr]
    ELSE IF s.sampling_method = "weighted" THEN
        [idx |-> NoneV,
         revisit_counter |-> s.revisit_counter + 1,
         err |-> "NotImplementedError"]
    ELSE
        [idx |-> NoneV,
         revisit_counter |-> s.revisit_counter,
         err |-> NoErr]

\* mutant: the cyclic index computed after the increment
select_task_index_increment_first(s, k) ==
    IF s.sampling_method = "cyclic" THEN
        [idx |-> Some((s.revisit_counter + 1) % Len(s.selected_tasks)),
         revisit_counter |-> s.revisit_counter + 1,
         err |-> NoErr]
    ELSE IF s.sampling_method = "random" THEN
        [idx |-> Some(k),
         revisit_counter |-> s.revisit_counter + 1,
         err |-> NoErr]
    ELSE IF s.sampling_method = "weighted" THEN
        [idx |-> NoneV,
         revisit_counter |-> s.revisit_counter + 1,
         err |-> "NotImplementedError"]
    ELSE
        [idx |-> NoneV,
         revisit_counter |-> s.revisit_counter,
         err |-> NoErr]

\* mutant: weighted selection falls back to the cyclic walk
select_task_index_weighted_fallback(s, k) ==
    IF s.sampling_method \in {"cyclic", "weighted"} THEN
        [idx |-> Some(s.revisit_counter % Len(s.selected_tasks)),
         revisit_counter |-> s.revisit_counter + 1,
         err |-> NoErr]
    ELSE IF s.sampling_method = "random" THEN
        [idx |-> Some(k),
         revisit_counter |-> s.revisit_counter + 1,
         err |-> NoErr]
    ELSE
        [idx |-> NoneV,
         revisit_counter |-> s.revisit_counter,
         err |-> NoErr]

\* returns the index (None when the method falls off its end), the counter
\* it leaves behind and the exception it raises, if any
select_task_index_for_revisit(s, k) ==
    IF s.sampling_method = "cyclic" THEN
        [idx |-> Some(s.revisit_counter % Len(s.selected_tasks)),
         revisit_counter |-> s.revisit_counter + 1,
         err |-> NoErr]
    ELSE IF s.sampling_method = "random" THEN
        [idx |-> Some(k),
         revisit_counter |-> s.revisit_counter + 1,
         err |-> NoErr]
    ELSE IF s.sampling_method = "weighted" THEN
        [idx |-> NoneV,
         revisit_counter |-> s.revisit_counter + 1,
         err |-> "NotImplementedError"]
    ELSE
        [idx |-> NoneV,
         revisit_counter |-> s.revisit_counter,
         err |-> NoErr]

-----------------------------------------------------------------------------
(* TaskGenerator.get_task *)

\* the outcome of a call: the attributes it leaves, what it did, what it
\* returned or raised, the History index it touched, and the factory
\* invocations it made (each a pair <<seed, params>>)
Outcome(s, kind, ret, err, idx, fargs) ==
    [self |-> s, kind |-> kind, ret |-> ret, err |-> err, idx |-> idx,
     factory_args |-> fargs]

Raise(s, err, fargs) == Outcome(s, "error", NoneV, err, NoneV, fargs)

\* mutant: a catalog selection reports the current step as its origin
catalog_serve_with_origin(s, meta_step, i) ==
    LET entry == Val(s.tasks)[i + 1]
        rec == [task |-> entry[1], task_info |-> entry[2],
                meta_step |-> <<meta_step>>, seed |-> NoneV]
    IN Outcome([s EXCEPT !.selected_tasks = Append(@, rec)],
               "catalog", Some(<<entry[1], entry[2], Some(meta_step)>>), NoErr,
               Some(i), <<>>)

\* lines 76-77: log the selection and return it
catalog_serve(s, meta_step, i) ==
    LET entry == Val(s.tasks)[i + 1]
        rec == [task |-> entry[1], task_info |-> entry[2],
                meta_step |-> <<meta_step>>, seed |-> NoneV]
    IN Outcome([s EXCEPT !.selected_tasks = Append(@, rec)],
               "catalog", Some(<<entry[1], entry[2], NoneV>>), NoErr,
               Some(i), <<>>)

\* mutant: the cyclic index taken from the number of calls made, not the step
get_task_catalog_call_order(s, meta_step, rnd) ==
    LET n == Len(Val(s.tasks))
        w == s.sampling_weights
    IN IF n = 0 THEN Raise(s, "ValueError:empty_tasks", <<>>)
       ELSE IF s.sampling_method = "cyclic" THEN
           catalog_serve(s, meta_step, Len(s.selected_tasks) % n)
       ELSE IF s.sampling_method = "random" THEN
           catalog_serve(s, meta_step, rnd.choice)
       ELSE IF s.sampling_method = "weighted" THEN
           IF w = NoneV \/ Len(Val(w)) # n THEN
               Raise(s, "ValueError:sampling_weights", <<>>)
           ELSE IF SeqSum(Val(w)) = 0 THEN
               Raise(s, "ValueError:total_weights", <<>>)
           ELSE catalog_serve(s, meta_step, rnd.choice)
       ELSE Raise(s, "ValueError:unknown_sampling_method", <<>>)

\* mutant: the weights checked for presence only, not for length
get_task_catalog_no_length_check(s, meta_step, rnd) ==
    LET n == Len(Val(s.tasks))
        w == s.sampling_weights
    IN IF n = 0 THEN Raise(s, "ValueError:empty_tasks", <<>>)
       ELSE IF s.sampling_method = "cyclic" THEN
           catalog_serve(s, meta_step, meta_step % n)
       ELSE IF s.sampling_method = "random" THEN
           catalog_serve(s, meta_step, rnd.choice)
       ELSE IF s.sampling_method = "weighted" THEN
           IF w = NoneV THEN
               Raise(s, "ValueError:sampling_weights", <<>>)
           ELSE IF SeqSum(Val(w)) = 0 THEN
               Raise(s, "ValueError:total_weights", <<>>)
           ELSE catalog_serve(s, meta_step, rnd.choice)
       ELSE Raise(s, "ValueError:unknown_sampling_method", <<>>)

\* lines 61-77
get_task_catalog(s, meta_step, rnd) ==
    LET n == Len(Val(s.tasks))
        w == s.sampling_weights
    IN IF n = 0 THEN Raise(s, "ValueError:empty_tasks", <<>>)
       ELSE IF s.sampling_method = "cyclic" THEN
           catalog_serve(s, meta_step, meta_step % n)
       ELSE IF s.sampling_method = "random" THEN
           catalog_serve(s, meta_step, rnd.choice)
       ELSE IF s.sampling_method = "weighted" THEN
           IF w = NoneV \/ Len(Val(w)) # n THEN
               Raise(s, "ValueError:sampling_weights", <<>>)
           ELSE IF SeqSum(Val(w)) = 0 THEN
               Raise(s, "ValueError:total_weights", <<>>)
           ELSE catalog_serve(s, meta_step, rnd.choice)
       ELSE Raise(s, "ValueError:unknown_sampling_method", <<>>)

\* mutant: the revisit_start gate forgotten
can_revisit_no_gate(s, meta_step) ==
    s.selected_tasks # <<>>

\* line 81
can_revisit(s, meta_step) ==
    meta_step >= s.revisit_start /\ s.selected_tasks # <<>>

\* mutant: the draw taken from (0,1] instead of [0,1)
decides_revisit_closed_draw(s, meta_step, u) ==
    /\ meta_step >= s.revisit_start
    /\ s.selected_tasks # <<>>
    /\ u + 1 < s.revisit_ratio

\* line 83
decides_revisit(s, meta_step, u) ==
    can_revisit(s, meta_step) /\ u < s.revisit_ratio

\* mutant: a revisit reports the current step as the origin
revisit_current_step(s, meta_step, k) ==
    LET sel == select_task_index_for_revisit(s, k)
        s1 == [s EXCEPT !.revisit_counter = sel.revisit_counter]
    IN IF sel.err # NoErr THEN Raise(s1, sel.err, <<>>)
       ELSE IF sel.idx = NoneV THEN Raise(s1, "TypeError", <<>>)
       ELSE LET i == Val(sel.idx)
                record == s1.selected_tasks[i + 1]
                s2 == [s1 EXCEPT !.selected_tasks[i + 1].meta_step =
                                     Append(@, meta_step)]
            IN Outcome(s2, "revisit",
                       Some(<<record.task, record.task_info, Some(meta_step)>>),
                       NoErr, Some(i), <<>>)

\* mutant: a revisit that returns the record without noting the step in it
revisit_unrecorded(s, meta_step, k) ==
    LET sel == select_task_index_for_revisit(s, k)
        s1 == [s EXCEPT !.revisit_counter = sel.revisit_counter]
    IN IF sel.err # NoErr THEN Raise(s1, sel.err, <<>>)
       ELSE IF sel.idx = NoneV THEN Raise(s1, "TypeError", <<>>)
       ELSE LET i == Val(sel.idx)
                record == s1.selected_tasks[i + 1]
            IN Outcome(s1, "revisit",
                       Some(<<record.task, record.task_info,
                              Some(record.meta_step[1])>>),
                       NoErr, Some(i), <<>>)

\* mutant: the revisit step put in front of the record's earlier steps
revisit_prepend_step(s, meta_step, k) ==
    LET sel == select_task_index_for_revisit(s, k)
        s1 == [s EXCEPT !.revisit_counter = sel.revisit_counter]
    IN IF sel.err # NoErr THEN Raise(s1, sel.err, <<>>)
       ELSE IF sel.idx = NoneV THEN Raise(s1, "TypeError", <<>>)
       ELSE LET i == Val(sel.idx)
                record == s1.selected_tasks[i + 1]
                s2 == [s1 EXCEPT !.selected_tasks[i + 1].meta_step =
                                     <<meta_step>> \o @]
            IN Outcome(s2, "revisit",
                       Some(<<record.task, record.task_info,
                              Some(s2.selected_tasks[i + 1].meta_step[1])>>),
                       NoErr, Some(i), <<>>)

\* lines 84-91
revisit(s, meta_step, k) ==
    LET sel == select_task_index_for_revisit(s, k)
        s1 == [s EXCEPT !.revisit_counter = sel.revisit_counter]
    IN IF sel.err # NoErr THEN Raise(s1, sel.err, <<>>)
       ELSE IF sel.idx = NoneV THEN Raise(s1, "TypeError", <<>>)
       ELSE LET i == Val(sel.idx)
                record == s1.selected_tasks[i + 1]
                s2 == [s1 EXCEPT !.selected_tasks[i + 1].meta_step =
                                     Append(@, meta_step)]
            IN Outcome(s2, "revisit",
                       Some(<<record.task, record.task_info,
                              Some(s2.selected_tasks[i + 1].meta_step[1])>>),
                       NoErr, Some(i), <<>>)

\* mutant: the caller's seed ignored, a fresh one always drawn
generate_fresh_seed(s, meta_step, seed, rnd) ==
    LET sd == rnd.bits
        params == s.task_callable_params
        made == task_callable(sd, params)
        rec == [task |-> made[1], task_info |-> made[2],
                meta_step |-> <<meta_step>>, seed |-> Some(sd)]
    IN IF rnd.f = "raise" THEN
           Raise(s, "FactoryException", << <<sd, params>> >>)
       ELSE Outcome([s EXCEPT !.selected_tasks = Append(@, rec)],
                    "generate", Some(<<made[1], made[2], Some(meta_step)>>),
                    NoErr, Some(Len(s.selected_tasks)), << <<sd, params>> >>)

\* mutant: a failed factory call is tried once more before giving up
generate_retry(s, meta_step, seed, rnd) ==
    LET sd == IF seed = NoneV THEN rnd.bits ELSE Val(seed)
        params == s.task_callable_params
        made == task_callable(sd, params)
        rec == [task |-> made[1], task_info |-> made[2],
                meta_step |-> <<meta_step>>, seed |-> Some(sd)]
    IN IF rnd.f = "raise" THEN
           Raise(s, "FactoryException", << <<sd, params>>, <<sd, params>> >>)
       ELSE Outcome([s EXCEPT !.selected_tasks = Append(@, rec)],
                    "generate", Some(<<made[1], made[2], Some(meta_step)>>),
                    NoErr, Some(Len(s.selected_tasks)), << <<sd, params>> >>)

\* mutant: the stored task_callable_params not forwarded to the factory
generate_drop_params(s, meta_step, seed, rnd) ==
    LET sd == IF seed = NoneV THEN rnd.bits ELSE Val(seed)
        params == <<>>
        made == task_callable(sd, params)
        rec == [task |-> made[1], task_info |-> made[2],
                meta_step |-> <<meta_step>>, seed |-> Some(sd)]
    IN IF rnd.f = "raise" THEN
           Raise(s, "FactoryException", << <<sd, params>> >>)
       ELSE Outcome([s EXCEPT !.selected_tasks = Append(@, rec)],
                    "generate", Some(<<made[1], made[2], Some(meta_step)>>),
                    NoErr, Some(Len(s.selected_tasks)), << <<sd, params>> >>)

\* mutant: the new record put in front of the older ones
generate_prepend(s, meta_step, seed, rnd) ==
    LET sd == IF seed = NoneV THEN rnd.bits ELSE Val(seed)
        params == s.task_callable_params
        made == task_callable(sd, params)
        rec == [task |-> made[1], task_info |-> made[2],
                meta_step |-> <<meta_step>>, seed |-> Some(sd)]
    IN IF rnd.f = "raise" THEN
           Raise(s, "FactoryException", << <<sd, params>> >>)
       ELSE Outcome([s EXCEPT !.selected_tasks = <<rec>> \o @],
                    "generate", Some(<<made[1], made[2], Some(meta_step)>>),
                    NoErr, Some(0), << <<sd, params>> >>)

\* lines 94-101
generate(s, meta_step, seed, rnd) ==
    LET sd == IF seed = NoneV THEN rnd.bits ELSE Val(seed)
        params == s.task_callable_params
        made == task_callable(sd, params)
        rec == [task |-> made[1], task_info |-> made[2],
                meta_step |-> <<meta_step>>, seed |-> Some(sd)]
    IN IF rnd.f = "raise" THEN
           Raise(s, "FactoryException", << <<sd, params>> >>)
       ELSE Outcome([s EXCEPT !.selected_tasks = Append(@, rec)],
                    "generate", Some(<<made[1], made[2], Some(meta_step)>>),
                    NoErr, Some(Len(s.selected_tasks)), << <<sd, params>> >>)

\* lines 80-101
get_task_factory(s, meta_step, seed, rnd) ==
    IF decides_revisit(s, meta_step, rnd.u)
    THEN revisit(s, meta_step, rnd.k)
    ELSE generate(s, meta_step, seed, rnd)

get_task(s, meta_step, seed, rnd) ==
    IF s.tasks # NoneV THEN get_task_catalog(s, meta_step, rnd)
    ELSE IF s.task_callable # NoneV THEN get_task_factory(s, meta_step, seed, rnd)
    ELSE Raise(s, "ValueError:no_source", <<>>)

-----------------------------------------------------------------------------
(* The state machine. *)

NoRun == [start |-> 0, idxs |-> <<>>]

\* what is kept of the call before a reset: its seed argument and its outcome
NoMemo == [seed |-> NoneV, kind |-> "none", ret |-> NoneV, factory_args |-> <<>>]
Memo(c) == [seed |-> c.args[2], kind |-> c.kind, ret |-> c.ret,
            factory_args |-> c.factory_args]

\* attempts: calls that went to revisit selection; served: calls that
\* returned; created: the meta_step of each call that generated a record
NoTally == [attempts |-> 0, served |-> 0, created |-> <<>>]

\* the record of a call: the operation, its arguments, the length of History
\* and the counter it found, and its outcome
Call(op, args, s, o) ==
    [op |-> op, args |-> args,
     pre |-> [len |-> Len(s.selected_tasks), counter |-> s.revisit_counter],
     kind |-> o.kind, ret |-> o.ret, err |-> o.err,
     idx |-> o.idx, factory_args |-> o.factory_args]

Init ==
    /\ phase = "new"
    /\ self = Unbuilt
    /\ last = Call("none", <<>>, Unbuilt, Outcome(Unbuilt, "none", NoneV, NoErr, NoneV, <<>>))
    /\ ncalls = 0
    /\ revisit_run = NoRun
    /\ before_reset = NoMemo
    /\ in_order = TRUE
    /\ tally = NoTally

\* the constructor calls made: factory mode, catalog mode (with or without a
\* factory beside the catalog), and neither source
FactoryArgs ==
    {<<NoneV, Some("make_env"), p, r, st, m, NoneV>> :
        p \in ParamDicts, r \in Ratios, st \in RevisitStarts, m \in Methods}
CatalogArgs ==
    {<<t, c, NoneV, RatioScale, 0, m, w>> :
        t \in TaskLists \ {NoneV}, c \in Callables, m \in Methods,
        w \in WeightLists}
NoSourceArgs ==
    {<<NoneV, NoneV, NoneV, RatioScale, 0, m, NoneV>> : m \in Methods}
CtorArgs == FactoryArgs \cup CatalogArgs \cup NoSourceArgs

\* TaskGenerator(tasks, task_callable, task_callable_params, revisit_ratio,
\*               revisit_start, sampling_method, sampling_weights)
Construct ==
    /\ phase = "new"
    /\ \E a \in CtorArgs :
         IF init_assert(a[1], a[2])
         THEN /\ phase' = "ready"
              /\ self' = init(a[1], a[2], a[3], a[4], a[5], a[6], a[7])
              /\ last' = Call("__init__", <<a[1], a[2]>>, self,
                              Outcome(self', "init", NoneV, NoErr, NoneV, <<>>))
         ELSE /\ phase' = "ctor_failed"
              /\ self' = self
              /\ last' = Call("__init__", <<a[1], a[2]>>, self,
                              Raise(self, "AssertionError", <<>>))
    /\ UNCHANGED <<ncalls, revisit_run, before_reset, in_order, tally>>

\* one call get_task(meta_step, seed) under the draws rnd
DoGetTask(meta_step, seed, rnd) ==
    \E o \in {get_task(self, meta_step, seed, rnd)} :
       /\ self' = o.self
       /\ last' = Call("get_task", <<meta_step, seed>>, self, o)
       /\ revisit_run' =
            IF o.kind # "revisit" THEN NoRun
            ELSE IF revisit_run.idxs = <<>>
                 THEN [start |-> self.revisit_counter, idxs |-> <<Val(o.idx)>>]
                 ELSE [revisit_run EXCEPT !.idxs = Append(@, Val(o.idx))]
       /\ before_reset' =
            IF last.op = "reset_history" THEN before_reset ELSE NoMemo
       /\ in_order' =
            (in_order /\ (last.op = "get_task" => meta_step >= last.args[1]))
       /\ tally' =
            [attempts |-> tally.attempts +
                 (IF FactoryMode(self) /\ decides_revisit(self, meta_step, rnd.u)
                  THEN 1 ELSE 0),
             served |-> tally.served + (IF o.err = NoErr THEN 1 ELSE 0),
             created |-> IF o.kind = "generate"
                         THEN Append(tally.created, meta_step)
                         ELSE tally.created]
       /\ ncalls' = ncalls + 1
       /\ UNCHANGED phase

DoResetHistory ==
    /\ self' = reset_history(self)
    /\ last' = Call("reset_history", <<>>, self,
                    Outcome(self', "reset", NoneV, NoErr, NoneV, <<>>))
    /\ revisit_run' = NoRun
    /\ before_reset' =
         IF last.op = "get_task" THEN Memo(last)
         ELSE IF last.op = "reset_history" THEN before_reset
         ELSE NoMemo
    /\ in_order' = TRUE
    /\ tally' = NoTally
    /\ ncalls' = ncalls + 1
    /\ UNCHANGED phase

\* any caller: any step, with or without a seed
GetTask ==
    /\ phase = "ready"
    /\ ncalls < MaxCalls
    /\ \E meta_step \in Steps, seed \in SeedArgs :
         \E rnd \in RandomDraws(self) : DoGetTask(meta_step, seed, rnd)

ResetHistory ==
    /\ phase = "ready"
    /\ ncalls < MaxCalls
    /\ DoResetHistory

Next == Construct \/ GetTask \/ ResetHistory

Spec == Init /\ [][Next]_vars

-----------------------------------------------------------------------------
(* A training loop over a factory-mode generator with cyclic or random      *)
(* revisits: one get_task per outer iteration, called with the iteration    *)
(* index and no seed, the factory never failing; the loop may reset the     *)
(* history between iterations.                                              *)

InitLoop ==
    /\ phase = "ready"
    /\ \E r \in Ratios, st \in LoopRevisitStarts, m \in {"cyclic", "random"} :
         self = init(NoneV, Some("make_env"), NoneV, r, st, m, NoneV)
    /\ last = Call("__init__", <<NoneV, Some("make_env")>>, Unbuilt,
                   Outcome(self, "init", NoneV, NoErr, NoneV, <<>>))
    /\ ncalls = 0
    /\ revisit_run = NoRun
    /\ before_reset = NoMemo
    /\ in_order = TRUE
    /\ tally = NoTally

LoopGetTask ==
    /\ ncalls < MaxLoopCalls
    /\ \E rnd \in {d \in RandomDraws(self) : d.f = "ok"} :
         DoGetTask(ncalls, NoneV, rnd)

LoopResetHistory ==
    /\ ncalls < MaxLoopCalls
    /\ self.selected_tasks # <<>>
    /\ DoResetHistory

NextLoop == LoopGetTask \/ LoopResetHistory

SpecLoop == InitLoop /\ [][NextLoop]_vars

-----------------------------------------------------------------------------
(* A caller of a catalog-mode generator: get_task with any step of          *)
(* 0 .. MaxCatalogStep in any order and no seed, and reset_history.  The    *)
(* catalog has two entries, or three under cyclic selection; the weights    *)
(* vary under weighted selection.                                           *)

CatalogSteps == 0 .. MaxCatalogStep

\* <<tasks, sampling_method, sampling_weights>> of the generators called
CatalogLoopArgs ==
    {<<Some(<<EntryA, EntryB>>), m, NoneV>> : m \in Methods}
    \cup {<<Some(<<EntryA, EntryB, EntryC>>), "cyclic", NoneV>>}
    \cup {<<Some(<<EntryA, EntryB>>), "weighted", w>> : w \in WeightLists}

InitCatalog ==
    /\ phase = "ready"
    /\ \E a \in CatalogLoopArgs :
         self = init(a[1], NoneV, NoneV, RatioScale, 0, a[2], a[3])
    /\ last = Call("__init__", <<self.tasks, NoneV>>, Unbuilt,
                   Outcome(self, "init", NoneV, NoErr, NoneV, <<>>))
    /\ ncalls = 0
    /\ revisit_run = NoRun
    /\ before_reset = NoMemo
    /\ in_order = TRUE
    /\ tally = NoTally

CatalogGetTask ==
    /\ ncalls < MaxCatalogCalls
    /\ \E meta_step \in CatalogSteps :
         \E rnd \in RandomDraws(self) : DoGetTask(meta_step, NoneV, rnd)

CatalogResetHistory ==
    /\ ncalls < MaxCatalogCalls
    /\ self.selected_tasks # <<>>
    /\ DoResetHistory

NextCatalog == CatalogGetTask \/ CatalogResetHistory

SpecCatalog == InitCatalog /\ [][NextCatalog]_vars

-----------------------------------------------------------------------------
(* A caller that regenerates tasks: a factory-mode generator with cyclic or *)
(* random revisits, get_task at step 0, 1, 2, ... with or without an        *)
(* explicit seed, the factory never failing, and reset_history at any time. *)

InitRegen ==
    /\ phase = "ready"
    /\ \E p \in ParamDicts, r \in Ratios, st \in RevisitStarts,
          m \in {"cyclic", "random"} :
         self = init(NoneV, Some("make_env"), p, r, st, m, NoneV)
    /\ last = Call("__init__", <<NoneV, Some("make_env")>>, Unbuilt,
                   Outcome(self, "init", NoneV, NoErr, NoneV, <<>>))
    /\ ncalls = 0
    /\ revisit_run = NoRun
    /\ before_reset = NoMemo
    /\ in_order = TRUE
    /\ tally = NoTally

RegenGetTask ==
    /\ ncalls < MaxRegenCalls
    /\ \E seed \in SeedArgs :
         \E rnd \in {d \in RandomDraws(self) : d.f = "ok"} :
            DoGetTask(ncalls, seed, rnd)

RegenResetHistory ==
    /\ ncalls < MaxRegenCalls
    /\ DoResetHistory

NextRegen == RegenGetTask \/ RegenResetHistory

SpecRegen == InitRegen /\ [][NextRegen]_vars

-----------------------------------------------------------------------------
(* A training loop with cyclic revisits at any ratio: get_task at step 0,   *)
(* 1, 2, ... without a seed, the factory never failing, so that generations *)
(* and revisits interleave.                                                 *)

InitCyclic ==
    /\ phase = "ready"
    /\ \E r \in Ratios, st \in RevisitStarts :
         self = init(NoneV, Some("make_env"), NoneV, r, st, "cyclic", NoneV)
    /\ last = Call("__init__", <<NoneV, Some("make_env")>>, Unbuilt,
                   Outcome(self, "init", NoneV, NoErr, NoneV, <<>>))
    /\ ncalls = 0
    /\ revisit_run = NoRun
    /\ before_reset = NoMemo
    /\ in_order = TRUE
    /\ tally = NoTally

CyclicGetTask ==
    /\ ncalls < MaxCyclicCalls
    /\ \E rnd \in {d \in RandomDraws(self) : d.f = "ok"} :
         DoGetTask(ncalls, NoneV, rnd)

NextCyclic == CyclicGetTask

SpecCyclic == InitCyclic /\ [][NextCyclic]_vars

-----------------------------------------------------------------------------
(* Properties.  In an action formula the unprimed variables are the state   *)
(* a call finds and the primed ones the state it leaves; last' holds the    *)
(* call's arguments and outcome.                                            *)

\* a step that is a get_task call on a factory-mode generator
FactoryCall == last'.op = "get_task" /\ FactoryMode(self)

\* the call made no change to History
HistoryKept == self'.selected_tasks = self.selected_tasks

\* the call went down the generation path: the factory was invoked once, no
\* revisit index was selected, and unless the factory raised one record was
\* appended and returned
Generated ==
    /\ Len(last'.factory_args) = 1
    /\ self'.revisit_counter = self.revisit_counter
    /\ last'.kind # "revisit"
    /\ \/ /\ last'.err = "FactoryException"
          /\ HistoryKept
       \/ /\ last'.err = NoErr
          /\ Len(self'.selected_tasks) = Len(self.selected_tasks) + 1
          /\ SubSeq(self'.selected_tasks, 1, Len(self.selected_tasks))
               = self.selected_tasks

\* C1: in factory mode a get_task call revisits only if meta_step >=
\* revisit_start and History is non-empty when it is made; whatever the
\* ratio and the draw, a call with meta_step < revisit_start or with empty
\* History goes down the generation path.
C1_RevisitGate ==
    [][FactoryCall =>
        /\ last'.kind = "revisit" =>
             /\ last'.args[1] >= self.revisit_start
             /\ self.selected_tasks # <<>>
        /\ (last'.args[1] < self.revisit_start \/ self.selected_tasks = <<>>)
             => Generated]_vars

\* C1 witness: with revisit_ratio 1.0 and a non-empty History, a call below
\* revisit_start generated a second record.
C1_Witness ==
    /\ FactoryMode(self)
    /\ self.revisit_ratio = RatioScale
    /\ last.op = "get_task"
    /\ last.kind = "generate"
    /\ last.args[1] < self.revisit_start
    /\ last.pre.len >= 1
    /\ Len(self.selected_tasks) = last.pre.len + 1

C3_RevisitLineage ==
    [][(FactoryCall /\ last'.kind = "revisit") =>
        LET i == Val(last'.idx) + 1
            old == self.selected_tasks[i]
        IN /\ i \in 1 .. Len(self.selected_tasks)
           /\ last'.ret = Some(<<old.task, old.task_info, Some(old.meta_step[1])>>)
           /\ self'.selected_tasks =
                [self.selected_tasks EXCEPT
                    ![i] = [old EXCEPT !.meta_step = Append(@, last'.args[1])]]]_vars

\* C3 witness: a record generated at step 0 and revisited at step 1: the
\* revisit returned origin 0 and the record's steps are <<0, 1>>.
C3_Witness ==
    /\ FactoryMode(self)
    /\ last.kind = "revisit"
    /\ last.args[1] = 1
    /\ Val(last.ret)[3] = Some(0)
    /\ self.selected_tasks[Val(last.idx) + 1].meta_step = <<0, 1>>

\* C4: a generation whose factory call succeeds appends exactly one record
\* {task, task_info, seed, meta_step = [step]} at the end of History, the
\* task and task_info being the factory's output and the seed the caller's
\* seed if one was given, and returns (task, task_info, step).
C4_Generation ==
    [][(FactoryCall /\ last'.kind = "generate") =>
        LET step == last'.args[1]
            seed == last'.args[2]
            new == self'.selected_tasks[Len(self'.selected_tasks)]
        IN /\ Len(last'.factory_args) = 1
           /\ self'.selected_tasks = Append(self.selected_tasks, new)
           /\ new.meta_step = <<step>>
           /\ seed # NoneV => new.seed = seed
           /\ new.seed # NoneV
           /\ last'.factory_args[1] = <<Val(new.seed), self.task_callable_params>>
           /\ last'.ret = Some(<<new.task, new.task_info, Some(step)>>)]_vars

\* C4 witness: a generation at step 1 with the caller's seed 1, appended after
\* an earlier record.
C4_Witness ==
    /\ FactoryMode(self)
    /\ last.kind = "generate"
    /\ last.args = <<1, Some(1)>>
    /\ Len(self.selected_tasks) = 2
    /\ self.selected_tasks[2].seed = Some(1)
    /\ Val(last.ret)[3] = Some(1)

\* C5 as claimed: with cyclic selection, whenever History has size 3,
\* consecutive revisits select indices 0, 1, 2 in that order and then wrap
\* to 0.
C5_AsClaimed ==
    (/\ self.sampling_method = "cyclic"
     /\ Len(self.selected_tasks) = 3)
    => \A n \in 1 .. Len(revisit_run.idxs) :
         revisit_run.idxs[n] = (n - 1) % 3

\* C5 amended: with cyclic selection each revisit selects index
\* revisit_counter mod len(History) and then adds 1 to revisit_counter, so
\* consecutive revisits that start with the counter at c select
\* c mod len, (c+1) mod len, ... : with History of size 3 they are 0, 1, 2
\* and then 0 when c is a multiple of 3.
C5_CyclicWalk ==
    (/\ self.sampling_method = "cyclic"
     /\ revisit_run.idxs # <<>>)
    => /\ \A n \in 1 .. Len(revisit_run.idxs) :
            revisit_run.idxs[n] =
                (revisit_run.start + n - 1) % Len(self.selected_tasks)
       /\ self.revisit_counter = revisit_run.start + Len(revisit_run.idxs)
       /\ last.pre.counter = self.revisit_counter - 1
       /\ ((Len(self.selected_tasks) = 3 /\ revisit_run.start % 3 = 0) =>
             \A n \in 1 .. Len(revisit_run.idxs) :
                revisit_run.idxs[n] = (n - 1) % 3)

\* C5 witness: History of size 3 and four revisits in a row that touched
\* indices 0, 1, 2 and 0 again.
C5_Witness ==
    /\ self.sampling_method = "cyclic"
    /\ Len(self.selected_tasks) = 3
    /\ revisit_run.idxs = <<0, 1, 2, 0>>

\* C6: in factory mode with weighted selection no call ever revisits or
\* falls back to another policy: a call either goes down the generation path
\* or raises NotImplementedError with revisit_counter one higher, History
\* untouched and the factory not invoked; the second is what every call
\* forced to revisit (ratio 1.0, meta_step >= revisit_start, History
\* non-empty) does, and the first what every call that cannot revisit does.
C6_WeightedRevisitFails ==
    [][(FactoryCall /\ self.sampling_method = "weighted") =>
        LET failed == /\ last'.err = "NotImplementedError"
                      /\ last'.ret = NoneV
                      /\ self'.revisit_counter = self.revisit_counter + 1
                      /\ HistoryKept
                      /\ last'.factory_args = <<>>
            able == /\ last'.args[1] >= self.revisit_start
                    /\ self.selected_tasks # <<>>
        IN /\ failed \/ Generated
           /\ (able /\ self.revisit_ratio = RatioScale) => failed
           /\ (~able \/ self.revisit_ratio = 0) => Generated]_vars

\* C6 witness: two revisit attempts in a row failed with
\* NotImplementedError, the counter at 2 and the one record untouched.
C6_Witness ==
    /\ FactoryMode(self)
    /\ self.sampling_method = "weighted"
    /\ last.err = "NotImplementedError"
    /\ last.pre.counter = 1
    /\ self.revisit_counter = 2
    /\ Len(self.selected_tasks) = 1
    /\ Len(self.selected_tasks[1].meta_step) = 1

\* C7 as claimed: with a sampling_method other than cyclic, random or
\* weighted, every get_task call (on a generator whose catalog, if it has
\* one, is not empty) fails with the unknown-method configuration error.
C7_AsClaimed ==
    (/\ phase = "ready"
     /\ last.op = "get_task"
     /\ self.sampling_method \notin {"cyclic", "random", "weighted"}
     /\ self.tasks # Some(<<>>))
    => last.err = "ValueError:unknown_sampling_method"

\* C8 as claimed: construction fails when neither or both of tasks and
\* task_callable are supplied, so a constructed generator has exactly one.
C8_AsClaimed ==
    /\ (/\ last.op = "__init__"
        /\ (last.args[1] = NoneV) = (last.args[2] = NoneV))
       => (phase = "ctor_failed" /\ last.err # NoErr)
    /\ phase = "ready" => (self.tasks = NoneV) # (self.task_callable = NoneV)

\* C9: reset_history leaves History empty and revisit_counter at 0 and every
\* other attribute as it was; applied to a state it has just produced (empty
\* History, counter 0) it changes nothing.
C9_Reset ==
    [][last'.op = "reset_history" =>
        /\ self'.selected_tasks = <<>>
        /\ self'.revisit_counter = 0
        /\ \A f \in {"tasks", "task_callable", "task_callable_params",
                     "revisit_ratio", "revisit_start", "sampling_method",
                     "sampling_weights"} : self'[f] = self[f]
        /\ (self.selected_tasks = <<>> /\ self.revisit_counter = 0)
             => self' = self
        /\ phase' = phase]_vars

\* C9 witness: a reset that cleared a History of one record and a counter
\* of 1.
C9_Witness ==
    /\ last.op = "reset_history"
    /\ last.pre.len = 1
    /\ last.pre.counter = 1
    /\ self.selected_tasks = <<>>
    /\ self.revisit_counter = 0

\* C10: in catalog mode a successful get_task returns a (task, task_info)
\* pair that is an entry of the catalog, with origin None; no catalog-mode
\* call invokes a factory or changes the catalog.
C10_CatalogServe ==
    [][(last'.op = "get_task" /\ CatalogMode(self)) =>
        /\ self'.tasks = self.tasks
        /\ last'.factory_args = <<>>
        /\ last'.err = NoErr =>
             /\ \E i \in 1 .. Len(Val(self.tasks)) :
                  Val(self.tasks)[i] = <<Val(last'.ret)[1], Val(last'.ret)[2]>>
             /\ Val(last'.ret)[3] = NoneV]_vars

\* C10 witness: a weighted draw from a catalog that was given together with
\* a factory returned the second entry.
C10_Witness ==
    /\ CatalogMode(self)
    /\ self.task_callable # NoneV
    /\ self.sampling_method = "weighted"
    /\ last.op = "get_task"
    /\ last.err = NoErr
    /\ last.ret = Some(<<"envB", "infoB", NoneV>>)

\* the catalog entry at 0-based index i, as the pair get_task returns
CatalogEntry(i) == Val(self.tasks)[i + 1]

\* C11: in catalog mode with cyclic selection get_task(step) returns catalog
\* entry step mod N whatever calls came before; so the calls for steps
\* 0 .. 2N-1 in that order return entries 0, 1, ..., N-1, 0, 1, ..., N-1.
\* (selected_tasks holds, in call order, the step and the entry of every
\* successful call since the last reset.)
C11_CatalogCyclic ==
    (CatalogMode(self) /\ self.sampling_method = "cyclic"
        /\ Val(self.tasks) # <<>>) =>
    LET N == Len(Val(self.tasks))
        log == self.selected_tasks
    IN /\ \A i \in 1 .. Len(log) :
            <<log[i].task, log[i].task_info>>
                = CatalogEntry(log[i].meta_step[1] % N)
       /\ last.op = "get_task" =>
            /\ last.err = NoErr
            /\ last.idx = Some(last.args[1] % N)
            /\ last.ret = Some(<<CatalogEntry(last.args[1] % N)[1],
                                 CatalogEntry(last.args[1] % N)[2], NoneV>>)
       /\ (Len(log) = 2 * N /\ \A i \in 1 .. 2 * N : log[i].meta_step = <<i - 1>>)
            => \A i \in 1 .. 2 * N :
                 <<log[i].task, log[i].task_info>> = CatalogEntry((i - 1) % N)

\* C11 witness: a two-entry catalog called for steps 0, 1, 2, 3 in order
\* returned A, B, A, B.
C11_Witness ==
    /\ CatalogMode(self)
    /\ self.sampling_method = "cyclic"
    /\ Len(Val(self.tasks)) = 2
    /\ Len(self.selected_tasks) = 4
    /\ \A i \in 1 .. 4 : self.selected_tasks[i].meta_step = <<i - 1>>
    /\ \A i \in 1 .. 4 :
         self.selected_tasks[i].task = (IF i % 2 = 1 THEN "envA" ELSE "envB")
    /\ last.ret = Some(<<"envB", "infoB", NoneV>>)

\* C12 as claimed: catalog-mode tasks are never inserted into History: on a
\* catalog-mode generator selected_tasks stays empty.
C12_AsClaimed ==
    CatalogMode(self) => self.selected_tasks = <<>>

\* the last call raised out of a factory invocation
FactoryFailed ==
    /\ last.op = "get_task"
    /\ last.factory_args # <<>>
    /\ last.ret = NoneV

\* C13 as claimed: when the factory fails during a generation, get_task
\* fails with TaskGenerationError.
C13_AsClaimed ==
    FactoryFailed => last.err = "TaskGenerationError"

\* C13 amended: when the factory fails during a generation, get_task fails
\* at that call with the factory's own exception, propagated unchanged (it
\* is not wrapped), after invoking the factory exactly once, and leaves
\* History and revisit_counter (every attribute) as they were.
C13_FactoryFailure ==
    [][(FactoryCall /\ last'.factory_args # <<>> /\ last'.ret = NoneV) =>
        /\ last'.err = "FactoryException"
        /\ last'.kind = "error"
        /\ Len(last'.factory_args) = 1
        /\ self' = self]_vars

\* C13 witness: a factory failure on a generator that holds a record and has
\* counted a revisit: both are as the call found them.
C13_Witness ==
    /\ FactoryFailed
    /\ last.err = "FactoryException"
    /\ Len(self.selected_tasks) = 1
    /\ last.pre.len = 1
    /\ self.revisit_counter = 1
    /\ last.pre.counter = 1

\* the last call and the call before the reset(s) that preceded it were both
\* given the same explicit seed
SameSeedAcrossReset ==
    /\ FactoryMode(self)
    /\ last.op = "get_task"
    /\ before_reset.kind # "none"
    /\ last.args[2] # NoneV
    /\ before_reset.seed = last.args[2]

\* what the factory is passed for the last call's seed
ExpectedFactoryArgs == << <<Val(last.args[2]), self.task_callable_params>> >>

\* C14 as claimed: two get_task calls given the same explicit seed with
\* reset_history between them both generate, pass that seed and the stored
\* params to the factory and return the same (task, task_info).
C14_AsClaimed ==
    SameSeedAcrossReset =>
        /\ last.kind = "generate"
        /\ before_reset.kind = "generate"
        /\ last.factory_args = ExpectedFactoryArgs
        /\ before_reset.factory_args = ExpectedFactoryArgs
        /\ Val(last.ret)[1] = Val(before_reset.ret)[1]
        /\ Val(last.ret)[2] = Val(before_reset.ret)[2]

\* C14 amended: of two get_task calls given the same explicit seed with
\* reset_history between them, the second always generates, passing that
\* seed and the stored params to the factory; the first either generates
\* too, with the same factory arguments and the same (task, task_info)
\* returned, or (History non-empty when it was made) revisits, ignoring the
\* seed and not invoking the factory.
C14_Regeneration ==
    SameSeedAcrossReset =>
        /\ last.kind = "generate"
        /\ last.factory_args = ExpectedFactoryArgs
        /\ Val(last.ret)[1] = task_callable(Val(last.args[2]),
                                            self.task_callable_params)[1]
        /\ before_reset.kind \in {"generate", "revisit"}
        /\ before_reset.kind = "generate" =>
             /\ before_reset.factory_args = ExpectedFactoryArgs
             /\ Val(last.ret)[1] = Val(before_reset.ret)[1]
             /\ Val(last.ret)[2] = Val(before_reset.ret)[2]
        /\ before_reset.kind = "revisit" => before_reset.factory_args = <<>>

\* C14 witness: with ratio 1.0 and params given, seed 1 generated, the
\* history was reset, and seed 1 generated the same task again at a step
\* where a revisit is allowed.
C14_Witness ==
    /\ SameSeedAcrossReset
    /\ self.revisit_ratio = RatioScale
    /\ self.task_callable_params # <<>>
    /\ last.args[1] >= self.revisit_start
    /\ last.kind = "generate"
    /\ before_reset.kind = "generate"
    /\ last.ret # NoneV
    /\ Val(last.ret)[1] = Val(before_reset.ret)[1]

\* weighted catalog sampling configured without usable weights
BadWeights ==
    /\ CatalogMode(self)
    /\ self.sampling_method = "weighted"
    /\ \/ self.sampling_weights = NoneV
       \/ Len(Val(self.sampling_weights)) # Len(Val(self.tasks))

\* C15: in catalog mode with sampling_method "weighted" and sampling_weights
\* None or of another length than tasks, construction succeeds and every
\* get_task call raises ValueError (the sampling_weights one, or the
\* empty-catalog one when tasks is empty) and appends nothing to
\* selected_tasks.
C15_WeightedCheck ==
    BadWeights =>
        /\ phase = "ready"
        /\ self.selected_tasks = <<>>
        /\ last.op = "__init__" => last.err = NoErr
        /\ last.op = "get_task" =>
             /\ last.kind = "error"
             /\ last.ret = NoneV
             /\ last.pre.len = 0
             /\ last.err = IF Val(self.tasks) = <<>>
                           THEN "ValueError:empty_tasks"
                           ELSE "ValueError:sampling_weights"

\* C15 witness: a two-entry catalog with one weight; the second get_task in
\* a row has failed on the weights.
C15_Witness ==
    /\ BadWeights
    /\ Len(Val(self.tasks)) = 2
    /\ self.sampling_weights = Some(<<1>>)
    /\ last.op = "get_task"
    /\ last.err = "ValueError:sampling_weights"
    /\ ncalls >= 2
    /\ tally.served = 0

\* the meta_step at which record i (0-based) was first returned
CreationStep(i) == self.selected_tasks[i + 1].meta_step[1]

C17_RecordsGrow ==
    [][last'.op = "get_task" =>
        /\ Len(self'.selected_tasks) >= Len(self.selected_tasks)
        /\ \A i \in 1 .. Len(self.selected_tasks) :
              LET old == self.selected_tasks[i]
                  new == self'.selected_tasks[i]
              IN /\ new.task = old.task
                 /\ new.task_info = old.task_info
                 /\ new.seed = old.seed
                 /\ Len(new.meta_step) >= Len(old.meta_step)
                 /\ SubSeq(new.meta_step, 1, Len(old.meta_step)) = old.meta_step]_vars

\* C17 witness: the second of two records, generated at step 1, has been
\* revisited at step 0, after which its meta_step is (1, 0).
C17_Witness ==
    /\ FactoryMode(self)
    /\ last.kind = "revisit"
    /\ Len(self.selected_tasks) = 2
    /\ self.selected_tasks[2].meta_step = <<1, 0>>
    /\ last.idx = Some(1)

\* the indices of the records in selected_tasks (0-based)
Records == 0 .. (Len(self.selected_tasks) - 1)

\* under SpecCyclic, where each call has its own step: the number of
\* revisits record i received after record j was created
RevisitsSince(i, j) ==
    LET steps == self.selected_tasks[i + 1].meta_step
    IN Cardinality({n \in 2 .. Len(steps) : steps[n] > CreationStep(j)})

\* the number of revisits of any record made after record j was created
AllRevisitsSince(j) ==
    Cardinality({p \in Records \X (2 .. (ncalls + 1)) :
                    LET steps == self.selected_tasks[p[1] + 1].meta_step
                    IN p[2] <= Len(steps) /\ steps[p[2]] > CreationStep(j)})

\* C18 as claimed: with cyclic revisits, History growing between them or
\* not, any two records in History have received numbers of revisits that
\* differ by at most one, counted since both are in History and once a full
\* pass (as many revisits as History has records) has been made since.
C18_AsClaimed ==
    \A i, j \in Records :
       (i < j /\ AllRevisitsSince(j) >= Len(self.selected_tasks)) =>
          /\ RevisitsSince(i, j) - RevisitsSince(j, j) <= 1
          /\ RevisitsSince(j, j) - RevisitsSince(i, j) <= 1

\* the number of times index i was selected in the current run of
\* consecutive revisits
RunRevisits(i) ==
    Cardinality({n \in DOMAIN revisit_run.idxs : revisit_run.idxs[n] = i})

\* C18 amended: with cyclic revisits each revisit selects index
\* revisit_counter mod len(History) as they are at the call, so within a run
\* of consecutive revisits (no generation in between, History of constant
\* length) any two records receive numbers of revisits that differ by at
\* most one.
C18_RunRoundRobin ==
    (FactoryMode(self) /\ self.sampling_method = "cyclic"
       /\ revisit_run.idxs # <<>>) =>
        /\ last.idx = Some(last.pre.counter % Len(self.selected_tasks))
        /\ \A i, j \in Records :
              /\ RunRevisits(i) - RunRevisits(j) <= 1
              /\ RunRevisits(j) - RunRevisits(i) <= 1

\* C18 witness: a revisit, then a generation that made History two long,
\* then three revisits in a row.
C18_Witness ==
    /\ FactoryMode(self)
    /\ self.sampling_method = "cyclic"
    /\ Len(self.selected_tasks) = 2
    /\ Len(revisit_run.idxs) = 3
    /\ tally.attempts > 3
    /\ RunRevisits(0) + RunRevisits(1) = 3

\* C19 as claimed: revisit_counter is 0 after construction and after
\* reset_history and goes up by one with each revisit-selection attempt and
\* with nothing else, so at any time it equals the number of
\* revisit-selection attempts since the last reset.
C19_AsClaimed ==
    phase = "ready" => self.revisit_counter = tally.attempts

\* the number of meta_step elements over all records
TotalSteps ==
    Cardinality({p \in Records \X (1 .. ncalls) :
                    p[2] <= Len(self.selected_tasks[p[1] + 1].meta_step)})

\* C20: in factory mode with cyclic or random revisits, every record's
\* meta_step is non-empty and its elements after the first are
\* >= revisit_start; the meta_step elements of all records together number
\* the get_task calls that returned since the last reset, and
\* selected_tasks has one record per call among them that generated; a
\* revisit leaves the length of selected_tasks alone and adds its step to
\* the record it selected.
C20_StepAccounting ==
    (FactoryMode(self) /\ self.sampling_method \in {"cyclic", "random"}) =>
        /\ \A i \in Records :
              LET steps == self.selected_tasks[i + 1].meta_step
              IN /\ steps # <<>>
                 /\ \A n \in 2 .. Len(steps) : steps[n] >= self.revisit_start
        /\ TotalSteps = tally.served
        /\ Len(self.selected_tasks) = Len(tally.created)
        /\ last.kind = "revisit" =>
             LET steps == self.selected_tasks[Val(last.idx) + 1].meta_step
             IN /\ Len(self.selected_tasks) = last.pre.len
                /\ Len(steps) >= 2
                /\ steps[Len(steps)] = last.args[1]

\* C20 witness: random revisits allowed from step 1 on; three calls
\* returned, two of them generated, the third revisited a record at step 1.
C20_Witness ==
    /\ FactoryMode(self)
    /\ self.sampling_method = "random"
    /\ self.revisit_start = 1
    /\ tally.served = 3
    /\ Len(self.selected_tasks) = 2
    /\ last.kind = "revisit"
    /\ TotalSteps = 3

\* revisit_counter counts the revisit-selection attempts when
\* sampling_method is one of the three known ones
CounterCountsKnownMethods ==
    (phase = "ready"
       /\ self.sampling_method \in {"cyclic", "random", "weighted"}) =>
        self.revisit_counter = tally.attempts

====
